---- MODULE Spec2Model ----
(***************************************************************************)
(* LAS/LAZ decoding pipeline of the DTM-3D-viewer: the header decoder, the *)
(* four point-record decoders, the plain two-pass point loop, the laz-perf *)
(* decompression bridge and the statistics accumulated by the parsers.     *)
(*                                                                         *)
(* Number representation.  A file is a sequence of bytes 0..255; offset o  *)
(* of the DataView is element o+1 of the sequence.                         *)
(*  - 32-bit integers are "wide" pairs <<hi, lo>> standing for             *)
(*    hi * 65536 + lo with lo in 0..65535, so that unsigned values above   *)
(*    2^31 are kept exactly.                                               *)
(*  - a real number (a float64 of the file, a coordinate) is a count of    *)
(*    hundredths: 0.01 is 1, 1.0 is 100.  The 8 bytes of a float64 field   *)
(*    hold that count as a little-endian two's-complement integer, which   *)
(*    stands in for the IEEE-754 encoding; getFloat64 decodes it.          *)
(***************************************************************************)
EXTENDS Integers, Sequences, FiniteSets, TLC

VARIABLES
    hbuf, hres, hres2, hdone,          \* header decoding on its own
    pin, pout, pdone,                  \* point decoding on its own
    cls, buffer, codecOut, pc, header, points, statistics, idx,
    error, result, dataPtr, filePtr, laszip,
    sinceYield,                        \* points decoded since the last await
    codecLog,                          \* the calls made to laz-perf, in order
    lasData, loading, uiError,         \* the viewer: its `error` state is uiError
    returned,                          \* the dataset an earlier parse of the same bytes returned
    sameParser,                        \* whether the running parser is the one that returned it
    snapshot                           \* the value of that dataset when it was returned

hvars == <<hbuf, hres, hres2, hdone>>
pvars == <<pin, pout, pdone>>
mvars == <<cls, buffer, codecOut, pc, header, points, statistics, idx,
           error, result, dataPtr, filePtr, laszip, sinceYield, codecLog>>
uvars == <<lasData, loading, uiError>>
rvars == <<sameParser, snapshot>>
vars == <<hvars, pvars, mvars, uvars, returned, rvars>>

(***************************************************************************)
(* Bounds of the model.                                                    *)
(***************************************************************************)
MaxPoints == 2
MaxVersionMajor == 2
MaxVersionMinor == 4
MaxFormat == 4

(***************************************************************************)
(* Byte cursor: DataView reads.                                            *)
(***************************************************************************)
undefined == << >>
\* A field that is present, with its value.
Some(v) == << v >>

InRange(view, offset, size) == offset >= 0 /\ offset + size <= Len(view)

getUint8(view, offset) == view[offset + 1]

getInt8(view, offset) ==
    IF view[offset + 1] >= 128 THEN view[offset + 1] - 256 ELSE view[offset + 1]

getUint16(view, offset) == view[offset + 1] + 256 * view[offset + 2]

\* A wide pair <<hi, lo>>: the unsigned 32-bit little-endian value.
getUint32(view, offset) ==
    << view[offset + 3] + 256 * view[offset + 4],
       view[offset + 1] + 256 * view[offset + 2] >>

\* A wide pair <<hi, lo>>: the signed (two's complement) 32-bit value.
getInt32(view, offset) ==
    << view[offset + 3]
         + 256 * (IF view[offset + 4] >= 128 THEN view[offset + 4] - 256
                                              ELSE view[offset + 4]),
       view[offset + 1] + 256 * view[offset + 2] >>

\* Number(getBigUint64(...)): the inputs of the model keep bytes 3..7 at 0.
getBigUint64(view, offset) ==
    view[offset + 1] + 256 * view[offset + 2] + 65536 * view[offset + 3]

\* A count of hundredths (see the module header).
getFloat64(view, offset) ==
    LET low == view[offset + 1] + 256 * view[offset + 2] + 65536 * view[offset + 3]
    IN  IF view[offset + 8] >= 128 THEN low - 16777216 ELSE low

\* The value of a wide pair as one integer, for values below 2^31.
Number(w) == w[1] * 65536 + w[2]

WNorm(hi, lo) == << hi + (lo \div 65536), lo % 65536 >>

\* raw * scale + offset, raw a wide integer, scale and offset in hundredths.
ScaleOffset(raw, scale, offset) == WNorm(raw[1] * scale, raw[2] * scale + offset)

WLess(a, b) == a[1] < b[1] \/ (a[1] = b[1] /\ a[2] < b[2])
WMin(a, b) == IF WLess(b, a) THEN b ELSE a
WMax(a, b) == IF WLess(a, b) THEN b ELSE a
WZero == << 0, 0 >>

\* new Uint8Array(buffer, offset, length) decoded as ASCII, NUL bytes removed.
getString(view, offset, length) ==
    SelectSeq(SubSeq(view, offset + 1, offset + length), LAMBDA b : b # 0)

\* String.prototype.trim on a decoded string: white space cut at both ends.
WhiteSpace == {9, 10, 11, 12, 13, 32}
trim(str) ==
    LET kept == { i \in 1..Len(str) : str[i] \notin WhiteSpace }
        Least(S) == CHOOSE i \in S : \A j \in S : i <= j
        Most(S) == CHOOSE i \in S : \A j \in S : j <= i
    IN  IF kept = {} THEN << >> ELSE SubSeq(str, Least(kept), Most(kept))

\* The GUID string lists the hex digits of the 16 bytes in order: the model
\* keeps the bytes.
getGuid(view, offset) == SubSeq(view, offset + 1, offset + 16)

LASF == << 76, 65, 83, 70 >>

(***************************************************************************)
(* Errors thrown by the code.                                              *)
(***************************************************************************)
NoError == [name |-> "none", message |-> ""]
InvalidSignature ==
    [name |-> "Error", message |-> "Invalid LAS file: File signature must be LASF"]
InvalidFileLength == [name |-> "Error", message |-> "Invalid file length"]
EmptyBuffer(class) ==
    [name |-> "Error",
     message |-> IF class = "LasParser" THEN "Invalid or empty array buffer provided"
                 ELSE "Invalid or empty array buffer from file"]
RangeError ==
    [name |-> "RangeError", message |-> "Offset is outside the bounds of the DataView"]
CodecError == [name |-> "Error", message |-> "laz-perf"]
\* A value the WebAssembly codec throws that is not an instance of Error.
CodecThrown == [name |-> "thrown value", message |-> ""]
CodecFailures == {CodecError, CodecThrown}
ProjError == [name |-> "Error", message |-> "proj4"]

Failure(e) == [ok |-> FALSE, error |-> e]

(***************************************************************************)
(* Header decoder.                                                         *)
(***************************************************************************)
isLAS14(versionMajor, versionMinor) == versionMajor >= 1 /\ versionMinor >= 4

\* The <<offset, size>> of every read parseHeader makes after the signature.
HeaderReads(las14) ==
    { <<24, 1>>, <<25, 1>>, <<4, 2>>, <<6, 2>>, <<8, 16>>, <<26, 32>>, <<58, 32>>,
      <<90, 2>>, <<92, 2>>, <<94, 2>>, <<96, 4>>, <<100, 4>>, <<104, 1>>, <<105, 2>> }
    \cup (IF las14
          THEN { <<247, 8>>, <<255, 8>>, <<263, 8>>, <<271, 8>>, <<279, 8>>, <<287, 8>> }
          ELSE { <<107, 4>>, <<111, 4>>, <<115, 4>>, <<119, 4>>, <<123, 4>>, <<127, 4>> })
    \cup { <<131 + 8 * k, 8>> : k \in 0..11 }

\* A signature check that accepts any signature starting with "LAS".
SignatureAccepted_Prefix(view) ==
    SubSeq(view, 1, 3) = SubSeq(LASF, 1, 3)

\* fileSignature === 'LASF'
SignatureAccepted(view) == getString(view, 0, 4) = LASF

parseHeader(view) ==
    IF ~InRange(view, 0, 4) THEN Failure(RangeError)
    ELSE IF ~SignatureAccepted(view) THEN Failure(InvalidSignature)
    ELSE IF ~InRange(view, 24, 2) THEN Failure(RangeError)
    ELSE
      LET versionMajor == getUint8(view, 24)
          versionMinor == getUint8(view, 25)
          las14 == isLAS14(versionMajor, versionMinor)
      IN  IF \E r \in HeaderReads(las14) : ~InRange(view, r[1], r[2])
          THEN Failure(RangeError)
          ELSE
            [ ok |-> TRUE,
              header |->
                [ fileSignature |-> getString(view, 0, 4),
                  fileSourceId |-> getUint16(view, 4),
                  globalEncoding |-> getUint16(view, 6),
                  projectIdGuid |-> getGuid(view, 8),
                  versionMajor |-> versionMajor,
                  versionMinor |-> versionMinor,
                  systemIdentifier |-> trim(getString(view, 26, 32)),
                  generatingSoftware |-> trim(getString(view, 58, 32)),
                  creationDayOfYear |-> getUint16(view, 90),
                  creationYear |-> getUint16(view, 92),
                  headerSize |-> getUint16(view, 94),
                  offsetToPointData |-> Number(getUint32(view, 96)),
                  numberOfVariableLengthRecords |-> Number(getUint32(view, 100)),
                  pointDataRecordFormat |-> getUint8(view, 104),
                  pointDataRecordLength |-> getUint16(view, 105),
                  numberOfPointRecords |->
                      IF las14 THEN getBigUint64(view, 247)
                               ELSE Number(getUint32(view, 107)),
                  numberOfPointsByReturn |->
                      IF las14
                      THEN [k \in 1..5 |-> getBigUint64(view, 247 + 8 * k)]
                      ELSE [k \in 1..5 |-> Number(getUint32(view, 107 + 4 * k))],
                  xScaleFactor |-> getFloat64(view, 131),
                  yScaleFactor |-> getFloat64(view, 139),
                  zScaleFactor |-> getFloat64(view, 147),
                  xOffset |-> getFloat64(view, 155),
                  yOffset |-> getFloat64(view, 163),
                  zOffset |-> getFloat64(view, 171),
                  maxX |-> getFloat64(view, 179),
                  minX |-> getFloat64(view, 187),
                  maxY |-> getFloat64(view, 195),
                  minY |-> getFloat64(view, 203),
                  maxZ |-> getFloat64(view, 211),
                  minZ |-> getFloat64(view, 219) ] ]

\* The stand-alone parseHeader of the LAZ file input.
LazFileInput_parseHeader(fileData) ==
    IF Len(fileData) < 227 THEN Failure(InvalidFileLength)
    ELSE
      [ ok |-> TRUE,
        header |->
          [ pointDataRecordFormat |-> fileData[105] % 16,
            pointDataRecordLength |-> getUint16(fileData, 105),
            pointDataOffset |-> Number(getUint32(fileData, 96)),
            pointCount |-> Number(getUint32(fileData, 107)),
            scale |-> << getFloat64(fileData, 131), getFloat64(fileData, 139),
                         getFloat64(fileData, 147) >>,
            offset |-> << getFloat64(fileData, 155), getFloat64(fileData, 163),
                          getFloat64(fileData, 171) >>,
            min |-> << getFloat64(fileData, 187), getFloat64(fileData, 203),
                       getFloat64(fileData, 219) >>,
            max |-> << getFloat64(fileData, 179), getFloat64(fileData, 195),
                       getFloat64(fileData, 211) >> ] ]

(***************************************************************************)
(* File layout: the bytes of a file with given header fields and records.  *)
(***************************************************************************)
\* Byte k (0..7) of the little-endian two's-complement encoding of v.
LEByte(v, k) ==
    IF k = 0 THEN (v % 16777216) % 256
    ELSE IF k = 1 THEN ((v % 16777216) \div 256) % 256
    ELSE IF k = 2 THEN (v % 16777216) \div 65536
    ELSE IF v < 0 THEN 255 ELSE 0

Flatten(recs) ==
    LET F[k \in 0..Len(recs)] == IF k = 0 THEN << >> ELSE F[k - 1] \o recs[k]
    IN  F[Len(recs)]

\* f: the field values of the header; the header area is f.offsetToPointData
\* bytes long and the records follow it; the file is cut to f.byteLength bytes.
FileBytes(f, recs) ==
    LET payload == Flatten(recs)
        HeaderByte(o) ==
            IF o < 4 THEN f.signature[o + 1]
            ELSE IF o = 24 THEN f.versionMajor
            ELSE IF o = 25 THEN f.versionMinor
            ELSE IF o \in 96..99 THEN LEByte(f.offsetToPointData, o - 96)
            ELSE IF o = 104 THEN f.format
            ELSE IF o \in 105..106 THEN LEByte(f.recordLength, o - 105)
            ELSE IF o \in 107..110 THEN LEByte(f.legacyCount, o - 107)
            ELSE IF o \in 131..154 THEN LEByte(f.scale, (o - 131) % 8)
            ELSE IF o \in 155..178 THEN LEByte(f.offset, (o - 155) % 8)
            ELSE IF o \in 179..226 THEN LEByte(f.bound, (o - 179) % 8)
            ELSE IF o \in 247..254 THEN LEByte(f.extendedCount, o - 247)
            ELSE 0
    IN  [ i \in 1..f.byteLength |->
            IF i <= f.offsetToPointData THEN HeaderByte(i - 1)
            ELSE IF i - f.offsetToPointData <= Len(payload)
                 THEN payload[i - f.offsetToPointData]
                 ELSE 0 ]

(***************************************************************************)
(* Point record decoders.  Each returns the point or the RangeError of the *)
(* first DataView read that leaves the view.                               *)
(***************************************************************************)
\* The <<offset, size>> of the reads of the three decoders that share one text.
PointReads(format) ==
    { <<0, 4>>, <<4, 4>>, <<8, 4>>, <<12, 2>>, <<14, 1>> }
    \cup (IF format \in {1, 3} THEN { <<20, 8>> } ELSE {})
    \cup (IF format = 3 THEN { <<28, 2>>, <<30, 2>>, <<32, 2>> } ELSE {})
    \cup (IF format = 2 THEN { <<20, 2>>, <<22, 2>>, <<24, 2>> } ELSE {})

LasFileParser_parsePoint(view, offsetToUse, h) ==
    IF \E r \in PointReads(h.pointDataRecordFormat)
                  \cup { <<16, 1>>, <<17, 1>>, <<18, 1>>, <<19, 2>> } :
           ~InRange(view, offsetToUse + r[1], r[2])
    THEN Failure(RangeError)
    ELSE
      LET returnByte == getUint8(view, offsetToUse + 14)
          format == h.pointDataRecordFormat
      IN  [ ok |-> TRUE,
            point |->
              [ x |-> ScaleOffset(getInt32(view, offsetToUse + 0), h.xScaleFactor, h.xOffset),
                y |-> ScaleOffset(getInt32(view, offsetToUse + 4), h.yScaleFactor, h.yOffset),
                z |-> ScaleOffset(getInt32(view, offsetToUse + 8), h.zScaleFactor, h.zOffset),
                intensity |-> getUint16(view, offsetToUse + 12),
                returnNumber |-> returnByte % 8,
                numberOfReturns |-> (returnByte \div 8) % 8,
                scanDirectionFlag |-> (returnByte \div 64) % 2,
                edgeOfFlightLine |-> (returnByte \div 128) % 2,
                classification |-> getUint8(view, offsetToUse + 16),
                scanAngleRank |-> getInt8(view, offsetToUse + 17),
                userData |-> getUint8(view, offsetToUse + 18),
                pointSourceId |-> getUint16(view, offsetToUse + 19),
                gpsTime |-> IF format = 1 \/ format = 3
                            THEN Some(getFloat64(view, offsetToUse + 20)) ELSE undefined,
                red |-> IF format = 2 \/ format = 3
                        THEN Some(getUint16(view, offsetToUse + (IF format = 3 THEN 28 ELSE 20)))
                        ELSE undefined,
                green |-> IF format = 2 \/ format = 3
                          THEN Some(getUint16(view, offsetToUse + (IF format = 3 THEN 30 ELSE 22)))
                          ELSE undefined,
                blue |-> IF format = 2 \/ format = 3
                         THEN Some(getUint16(view, offsetToUse + (IF format = 3 THEN 32 ELSE 24)))
                         ELSE undefined ] ]

LazFileParser_parsePoint(view, offsetToUse, h) ==
    IF \E r \in PointReads(h.pointDataRecordFormat)
                  \cup { <<16, 1>>, <<17, 1>>, <<18, 1>>, <<19, 2>> } :
           ~InRange(view, offsetToUse + r[1], r[2])
    THEN Failure(RangeError)
    ELSE
      LET returnByte == getUint8(view, offsetToUse + 14)
          format == h.pointDataRecordFormat
      IN  [ ok |-> TRUE,
            point |->
              [ x |-> ScaleOffset(getInt32(view, offsetToUse + 0), h.xScaleFactor, h.xOffset),
                y |-> ScaleOffset(getInt32(view, offsetToUse + 4), h.yScaleFactor, h.yOffset),
                z |-> ScaleOffset(getInt32(view, offsetToUse + 8), h.zScaleFactor, h.zOffset),
                intensity |-> getUint16(view, offsetToUse + 12),
                returnNumber |-> returnByte % 8,
                numberOfReturns |-> (returnByte \div 8) % 8,
                scanDirectionFlag |-> (returnByte \div 64) % 2,
                edgeOfFlightLine |-> (returnByte \div 128) % 2,
                classification |-> getUint8(view, offsetToUse + 16),
                scanAngleRank |-> getInt8(view, offsetToUse + 17),
                userData |-> getUint8(view, offsetToUse + 18),
                pointSourceId |-> getUint16(view, offsetToUse + 19),
                gpsTime |-> IF format = 1 \/ format = 3
                            THEN Some(getFloat64(view, offsetToUse + 20)) ELSE undefined,
                red |-> IF format = 2 \/ format = 3
                        THEN Some(getUint16(view, offsetToUse + (IF format = 3 THEN 28 ELSE 20)))
                        ELSE undefined,
                green |-> IF format = 2 \/ format = 3
                          THEN Some(getUint16(view, offsetToUse + (IF format = 3 THEN 30 ELSE 22)))
                          ELSE undefined,
                blue |-> IF format = 2 \/ format = 3
                         THEN Some(getUint16(view, offsetToUse + (IF format = 3 THEN 32 ELSE 24)))
                         ELSE undefined ] ]

LazParser_parsePoint(view, offsetToUse, h) ==
    IF \E r \in PointReads(h.pointDataRecordFormat)
                  \cup { <<15, 1>>, <<16, 1>>, <<17, 1>>, <<18, 2>> } :
           ~InRange(view, offsetToUse + r[1], r[2])
    THEN Failure(RangeError)
    ELSE
      LET returnByte == getUint8(view, offsetToUse + 14)
          format == h.pointDataRecordFormat
      IN  [ ok |-> TRUE,
            point |->
              [ x |-> ScaleOffset(getInt32(view, offsetToUse + 0), h.xScaleFactor, h.xOffset),
                y |-> ScaleOffset(getInt32(view, offsetToUse + 4), h.yScaleFactor, h.yOffset),
                z |-> ScaleOffset(getInt32(view, offsetToUse + 8), h.zScaleFactor, h.zOffset),
                intensity |-> getUint16(view, offsetToUse + 12),
                returnNumber |-> returnByte % 8,
                numberOfReturns |-> (returnByte \div 8) % 8,
                scanDirectionFlag |-> (returnByte \div 64) % 2,
                edgeOfFlightLine |-> (returnByte \div 128) % 2,
                classification |-> getUint8(view, offsetToUse + 15),
                scanAngleRank |-> getInt8(view, offsetToUse + 16),
                userData |-> getUint8(view, offsetToUse + 17),
                pointSourceId |-> getUint16(view, offsetToUse + 18),
                gpsTime |-> IF format = 1 \/ format = 3
                            THEN Some(getFloat64(view, offsetToUse + 20)) ELSE undefined,
                red |-> IF format = 2 \/ format = 3
                        THEN Some(getUint16(view, offsetToUse + (IF format = 3 THEN 28 ELSE 20)))
                        ELSE undefined,
                green |-> IF format = 2 \/ format = 3
                          THEN Some(getUint16(view, offsetToUse + (IF format = 3 THEN 30 ELSE 22)))
                          ELSE undefined,
                blue |-> IF format = 2 \/ format = 3
                         THEN Some(getUint16(view, offsetToUse + (IF format = 3 THEN 32 ELSE 24)))
                         ELSE undefined ] ]

\* The <<offset, size>> of the reads of LasParser.parsePoint.
LasParser_PointReads(format) ==
    { <<0, 4>>, <<4, 4>>, <<8, 4>>, <<12, 2>>, <<14, 1>>, <<15, 1>>, <<16, 1>>,
      <<17, 1>>, <<18, 1>>, <<19, 2>> }
    \cup (IF format >= 1 THEN { <<20, 8>> } ELSE {})
    \cup (IF format >= 2
          THEN { << (IF format = 2 THEN 20 ELSE 28) + k, 2 >> : k \in {0, 2, 4} }
          ELSE {})

LasParser_parsePoint(view, offset, h) ==
    IF \E r \in LasParser_PointReads(h.pointDataRecordFormat) :
           ~InRange(view, offset + r[1], r[2])
    THEN Failure(RangeError)
    ELSE
      LET rawX == getUint32(view, offset)
          rawY == getUint32(view, offset + 4)
          rawZ == getUint32(view, offset + 8)
          returnInfo == getUint8(view, offset + 14)
          flags == getUint8(view, offset + 15)
          format == h.pointDataRecordFormat
          colorOffset == IF format = 2 THEN 20 ELSE 28
      IN  [ ok |-> TRUE,
            point |->
              [ x |-> ScaleOffset(rawX, h.xScaleFactor, h.xOffset),
                y |-> ScaleOffset(rawY, h.yScaleFactor, h.yOffset),
                z |-> ScaleOffset(rawZ, h.zScaleFactor, h.zOffset),
                intensity |-> getUint16(view, offset + 12),
                returnNumber |-> returnInfo % 8,
                numberOfReturns |-> (returnInfo \div 8) % 8,
                scanDirectionFlag |-> flags % 2,
                edgeOfFlightLine |-> (flags \div 2) % 2,
                classification |-> getUint8(view, offset + 16),
                scanAngleRank |-> getInt8(view, offset + 17),
                userData |-> getUint8(view, offset + 18),
                pointSourceId |-> getUint16(view, offset + 19),
                gpsTime |-> IF format >= 1 THEN Some(getFloat64(view, offset + 20))
                                           ELSE undefined,
                red |-> IF format >= 2 THEN Some(getUint16(view, offset + colorOffset))
                                       ELSE undefined,
                green |-> IF format >= 2 THEN Some(getUint16(view, offset + colorOffset + 2))
                                         ELSE undefined,
                blue |-> IF format >= 2 THEN Some(getUint16(view, offset + colorOffset + 4))
                                        ELSE undefined ] ]

\* The decoder a parser class dispatches to.
parsePoint(class, view, offset, h) ==
    CASE class = "LasFileParser" -> LasFileParser_parsePoint(view, offset, h)
      [] class = "LazFileParser" -> LazFileParser_parsePoint(view, offset, h)
      [] class = "LazParser" -> LazParser_parsePoint(view, offset, h)
      [] class = "LasParser" -> LasParser_parsePoint(view, offset, h)

(***************************************************************************)
(* Inputs of the model: point records and files.                           *)
(***************************************************************************)
\* The n bytes of the record with raw coordinates r.X, r.Y, r.Z (wide pairs),
\* intensity r.intensity, flag byte r.flags, r.body at offsets 15..19 and
\* bytes derived from r.tail from offset 20 on.
PointBytes(r, n) ==
    LET Wide(w, k) ==
            IF k = 0 THEN w[2] % 256
            ELSE IF k = 1 THEN w[2] \div 256
            ELSE IF k = 2 THEN (w[1] % 65536) % 256
            ELSE (w[1] % 65536) \div 256
        At(o) ==
            IF o < 4 THEN Wide(r.X, o)
            ELSE IF o < 8 THEN Wide(r.Y, o - 4)
            ELSE IF o < 12 THEN Wide(r.Z, o - 8)
            ELSE IF o = 12 THEN r.intensity % 256
            ELSE IF o = 13 THEN r.intensity \div 256
            ELSE IF o = 14 THEN r.flags
            ELSE IF o < 20 THEN r.body[o - 14]
            ELSE IF (o - 20) % 8 < 3 THEN (r.tail * (o - 19)) % 256
            ELSE 0
    IN  [ i \in 1..n |-> At(i - 1) ]

RecordPool ==
    << [ X |-> <<0, 100>>, Y |-> <<0, 200>>, Z |-> <<0, 300>>, intensity |-> 10,
         flags |-> 73, body |-> <<2, 5, 250, 7, 1>>, tail |-> 3 ],
       [ X |-> <<0, 400>>, Y |-> <<0, 500>>, Z |-> <<0, 600>>, intensity |-> 300,
         flags |-> 146, body |-> <<5, 2, 9, 0, 4>>, tail |-> 5 ],
       [ X |-> <<-1, 65436>>, Y |-> <<-32768, 0>>, Z |-> <<0, 50>>, intensity |-> 0,
         flags |-> 255, body |-> <<1, 2, 129, 3, 0>>, tail |-> 7 ],
       [ X |-> <<0, 0>>, Y |-> <<1, 0>>, Z |-> <<0, 300>>, intensity |-> 10,
         flags |-> 0, body |-> <<0, 2, 0, 0, 0>>, tail |-> 0 ] >>

\* Runs of at most MaxPoints consecutive records of the pool.
RecordRuns ==
    { SubSeq(RecordPool, ab[1], ab[2]) :
        ab \in { ab \in (1..Len(RecordPool)) \X (0..Len(RecordPool)) :
                   ab[2] - ab[1] + 1 \in 0..MaxPoints } }

\* The standard record length of a point format.
StandardLength(format) ==
    CASE format = 0 -> 20 [] format = 1 -> 28 [] format = 2 -> 26
      [] format = 3 -> 34 [] OTHER -> 20

Signatures == { LASF, <<76, 65, 83, 88>>, <<76, 65, 83, 0>>, <<0, 76, 65, 83>> }

BaseFile ==
    [ signature |-> LASF, versionMajor |-> 1, versionMinor |-> 2,
      offsetToPointData |-> 227, format |-> 0, recordLength |-> 20,
      legacyCount |-> 0, extendedCount |-> 0, scale |-> 1, offset |-> 0,
      bound |-> 0, byteLength |-> 227 ]

(***************************************************************************)
(* Header decoding on its own: every file of HeaderFiles is decoded by the *)
(* parser's parseHeader and by the stand-alone parseHeader.                *)
(***************************************************************************)
HeaderLengths == { 3, 24, 100, 226, 227, 254, 255, 294, 295 }

HeaderFiles ==
    { FileBytes([BaseFile EXCEPT !.signature = s, !.versionMajor = vM,
                                 !.versionMinor = vm, !.legacyCount = lc,
                                 !.extendedCount = ec, !.offsetToPointData = n,
                                 !.byteLength = n], << >>) :
        s \in Signatures, vM \in 0..MaxVersionMajor, vm \in 0..MaxVersionMinor,
        lc \in 0..MaxPoints, ec \in 0..MaxPoints, n \in HeaderLengths }

None == [ok |-> FALSE, error |-> NoError]

null == << >>
IdleViewer == lasData = null /\ loading = FALSE /\ uiError = null
IdleReturn == returned = None /\ sameParser = FALSE /\ snapshot = None
IdleHeader == hbuf = << >> /\ hres = None /\ hres2 = None /\ hdone = FALSE
IdlePoint == pin = None /\ pout = None /\ pdone = FALSE
IdleParse ==
    /\ cls = "none" /\ buffer = << >> /\ codecOut = << >> /\ pc = "idle"
    /\ header = None /\ points = << >> /\ statistics = None /\ idx = 0
    /\ error = NoError /\ result = None
    /\ dataPtr = "none" /\ filePtr = "none" /\ laszip = "none"
    /\ sinceYield = 0 /\ codecLog = << >>

InitHeader ==
    /\ hbuf \in HeaderFiles
    /\ hres = None /\ hres2 = None /\ hdone = FALSE
    /\ IdlePoint /\ IdleParse /\ IdleViewer /\ IdleReturn

DecodeHeader ==
    /\ ~hdone
    /\ hres' = parseHeader(hbuf)
    /\ hres2' = LazFileInput_parseHeader(hbuf)
    /\ hdone' = TRUE
    /\ UNCHANGED <<hbuf, pvars, mvars, uvars, returned, rvars>>

NextHeader == DecodeHeader

SpecHeader == InitHeader /\ [][NextHeader]_vars

(***************************************************************************)
(* Point decoding on its own: one record window decoded by each of the     *)
(* four decoders under the same header.                                    *)
(***************************************************************************)
Scales == {1, 2}
Offsets == {0, -250}
WindowLengths == {20, 21, 26, 28, 34, 35}

PointHeader(format, scale, offset) ==
    [ pointDataRecordFormat |-> format,
      xScaleFactor |-> scale, yScaleFactor |-> scale, zScaleFactor |-> scale,
      xOffset |-> offset, yOffset |-> offset, zOffset |-> offset ]

InitPoint ==
    /\ \E k \in 1..Len(RecordPool), n \in WindowLengths, f \in 0..MaxFormat,
          s \in Scales, o \in Offsets :
          pin = [ window |-> PointBytes(RecordPool[k], n),
                  header |-> PointHeader(f, s, o) ]
    /\ pout = None /\ pdone = FALSE
    /\ IdleHeader /\ IdleParse /\ IdleViewer /\ IdleReturn

DecodePoint ==
    /\ ~pdone
    /\ pout' = [ c \in {"LasFileParser", "LazFileParser", "LasParser", "LazParser"} |->
                   parsePoint(c, pin.window, 0, pin.header) ]
    /\ pdone' = TRUE
    /\ UNCHANGED <<pin, hvars, mvars, uvars, returned, rvars>>

NextPoint == DecodePoint

SpecPoint == InitPoint /\ [][NextPoint]_vars

(***************************************************************************)
(* The parse pipeline: parse() of LasFileParser, LazFileParser (the        *)
(* decompression bridge) and LasParser, one step per action.               *)
(***************************************************************************)
Classes == {"LasFileParser", "LazFileParser", "LasParser"}
Compressed(class) == class = "LazFileParser"

\* The statistics object the constructor creates.
NewStatistics ==
    [ totalPoints |-> 0,
      boundingBox |-> [ minX |-> WZero, maxX |-> WZero, minY |-> WZero,
                        maxY |-> WZero, minZ |-> WZero, maxZ |-> WZero ],
      intensityRange |-> [ min |-> 0, max |-> 0 ],
      classificationCounts |-> << >> ]

\* A histogram update that overwrites the class count instead of adding to it.
CountClassification_Overwrite(counts, classification) ==
    [c \in DOMAIN counts \cup {classification} |->
        IF c = classification THEN 1 ELSE counts[c]]

\* counts[classification] = (counts[classification] || 0) + 1
CountClassification(counts, classification) ==
    IF classification \in DOMAIN counts
    THEN [counts EXCEPT ![classification] = @ + 1]
    ELSE [c \in DOMAIN counts \cup {classification} |->
            IF c = classification THEN 1 ELSE counts[c]]

updateStatistics(st, point) ==
    [ st EXCEPT
        !.classificationCounts = CountClassification(@, point.classification),
        !.intensityRange =
            [ min |-> IF point.intensity < @.min THEN point.intensity ELSE @.min,
              max |-> IF point.intensity > @.max THEN point.intensity ELSE @.max ],
        !.boundingBox =
            [ minX |-> WMin(@.minX, point.x), maxX |-> WMax(@.maxX, point.x),
              minY |-> WMin(@.minY, point.y), maxY |-> WMax(@.maxY, point.y),
              minZ |-> WMin(@.minZ, point.z), maxZ |-> WMax(@.maxZ, point.z) ] ]

\* The statistics the loop of the bridge accumulates over a sequence of decoded
\* points: updateStatistics once per point, in decode order, from the seed.
RECURSIVE Aggregate(_, _)
Aggregate(st, pts) ==
    IF pts = << >> THEN st
    ELSE Aggregate(updateStatistics(st, Head(pts)), Tail(pts))

\* The dataset ret as its holder sees it once the statistics of the parser are
\* st: parse() returns { ...this.statistics, coordinateInfo }, a copy one level
\* deep, so the histogram, the intensity range and the bounding box of a
\* returned dataset are the very objects the parser goes on updating in place.
Shared(ret, same, st) ==
    IF ret.ok /\ same
    THEN [ret EXCEPT !.statistics.classificationCounts = st.classificationCounts,
                     !.statistics.intensityRange = st.intensityRange,
                     !.statistics.boundingBox = st.boundingBox]
    ELSE ret

\* proj4(lambert93, wgs84, [x, y]): the projection engine is opaque, so the
\* result is the transform applied to its argument, left uninterpreted.
proj4(xy) == [from |-> "lambert93", to |-> "wgs84", xy |-> xy]

\* The centre is passed as twice its value, (max + min), to stay in integers.
detectUTMZone(view, centerX2, centerY2) ==
    [ utmZone |-> 0, hemisphere |-> "N",
      centerLatLon |-> proj4(<< centerX2, centerY2 >>),
      bounds |-> [ min |-> proj4(<< getFloat64(view, 187), getFloat64(view, 203) >>),
                   max |-> proj4(<< getFloat64(view, 179), getFloat64(view, 195) >>) ] ]

BadFiles ==
    { FileBytes([BaseFile EXCEPT !.signature = s, !.offsetToPointData = n,
                                 !.byteLength = n], << >>) :
        s \in Signatures, n \in {0, 3, 100, 227} }

PointFiles ==
    { [ buffer |->
          FileBytes([BaseFile EXCEPT
                       !.format = f, !.recordLength = StandardLength(f),
                       !.legacyCount = c,
                       !.byteLength = 227 + Len(run) * StandardLength(f) + slack],
                    [k \in 1..Len(run) |-> PointBytes(run[k], StandardLength(f))]),
        records |-> [k \in 1..Len(run) |-> PointBytes(run[k], StandardLength(f))] ] :
        f \in 0..MaxFormat, c \in 0..MaxPoints, run \in RecordRuns, slack \in {0, 1} }

Init ==
    /\ cls \in Classes
    /\ \/ \E file \in PointFiles : buffer = file.buffer /\ codecOut = file.records
       \/ buffer \in BadFiles /\ codecOut = << >>
    /\ pc = "initializeDataView"
    /\ header = None
    /\ points = << >>
    /\ statistics = NewStatistics
    /\ idx = 0
    /\ error = NoError
    /\ result = None
    /\ dataPtr = "none" /\ filePtr = "none" /\ laszip = "none"
    /\ sinceYield = 0 /\ codecLog = << >>
    /\ IdleHeader /\ IdlePoint /\ IdleViewer /\ IdleReturn

\* A throw that leaves parse(): the catch of parse() rethrows it.
Throw(e) == pc' = "failed" /\ error' = e

initializeDataView ==
    /\ pc = "initializeDataView"
    /\ IF Len(buffer) = 0
       THEN Throw(EmptyBuffer(cls))
       ELSE pc' = "parseHeader" /\ UNCHANGED error
    /\ UNCHANGED <<cls, buffer, codecOut, sinceYield, codecLog,
                   header, points, statistics, idx, result,
                   dataPtr, filePtr, laszip, hvars, pvars, uvars, returned, rvars>>

ParseHeader ==
    /\ pc = "parseHeader"
    /\ LET r == parseHeader(buffer)
       IN  IF r.ok
           THEN /\ header' = r
                /\ pc' = IF Compressed(cls) THEN "createLazPerf" ELSE "firstPass"
                /\ UNCHANGED error
           ELSE Throw(r.error) /\ UNCHANGED header
    /\ idx' = 0
    /\ UNCHANGED <<cls, buffer, codecOut, sinceYield, codecLog,
                   points, statistics, result,
                   dataPtr, filePtr, laszip, hvars, pvars, uvars, returned, rvars>>

\* A loop test that also stops at a record ending exactly at the end of the buffer.
LoopContinues_Inclusive(h, i) ==
    /\ i < h.numberOfPointRecords
    /\ ~(h.offsetToPointData + i * h.pointDataRecordLength + h.pointDataRecordLength
            >= Len(buffer))

\* Whether the loops of the plain parsePoints go on at index i.
LoopContinues(h, i) ==
    /\ i < h.numberOfPointRecords
    /\ ~(h.offsetToPointData + i * h.pointDataRecordLength + h.pointDataRecordLength
            > Len(buffer))

\* One iteration of the first pass of the plain parsePoints, or its end.
FirstPass ==
    /\ pc = "firstPass"
    /\ LET h == header.header
           offset == h.offsetToPointData + idx * h.pointDataRecordLength
       IN  IF LoopContinues(h, idx)
           THEN IF InRange(buffer, offset + 16, 1)
                THEN /\ statistics' =
                          [statistics EXCEPT !.classificationCounts =
                              CountClassification(@, getUint8(buffer, offset + 16))]
                     /\ idx' = idx + 1
                     /\ UNCHANGED <<pc, error>>
                ELSE Throw(RangeError) /\ UNCHANGED <<statistics, idx>>
           ELSE pc' = "secondPass" /\ idx' = 0 /\ UNCHANGED <<statistics, error>>
    /\ returned' = Shared(returned, sameParser, statistics')
    /\ UNCHANGED <<cls, buffer, codecOut, sinceYield, codecLog, header, points, result,
                   dataPtr, filePtr, laszip, hvars, pvars, uvars, rvars>>

\* A second pass that reports the number of points it decoded as the total.
SecondPass_CountDecoded ==
    /\ pc = "secondPass"
    /\ LET h == header.header
           offset == h.offsetToPointData + idx * h.pointDataRecordLength
       IN  IF LoopContinues(h, idx)
           THEN LET r == parsePoint(cls, buffer, offset, h)
                IN  IF r.ok
                    THEN /\ points' = Append(points, r.point)
                         /\ idx' = idx + 1
                         /\ sinceYield' = sinceYield + 1
                         /\ UNCHANGED <<pc, error, statistics>>
                    ELSE Throw(r.error) /\ UNCHANGED <<points, idx, statistics, sinceYield>>
           ELSE /\ statistics' = [statistics EXCEPT !.totalPoints = Len(points)]
                /\ pc' = "detectUTMZone"
                /\ UNCHANGED <<points, idx, error, sinceYield>>
    /\ UNCHANGED <<cls, buffer, codecOut, codecLog, header, result,
                   dataPtr, filePtr, laszip, hvars, pvars, uvars, returned, rvars>>

\* One iteration of the second pass of the plain parsePoints, or its end.
SecondPass ==
    /\ pc = "secondPass"
    /\ LET h == header.header
           offset == h.offsetToPointData + idx * h.pointDataRecordLength
       IN  IF LoopContinues(h, idx)
           THEN LET r == parsePoint(cls, buffer, offset, h)
                IN  IF r.ok
                    THEN /\ points' = Append(points, r.point)
                         /\ idx' = idx + 1
                         /\ sinceYield' = sinceYield + 1
                         /\ UNCHANGED <<pc, error, statistics>>
                    ELSE Throw(r.error) /\ UNCHANGED <<points, idx, statistics, sinceYield>>
           ELSE /\ statistics' = [statistics EXCEPT !.totalPoints = h.numberOfPointRecords]
                /\ pc' = "detectUTMZone"
                /\ UNCHANGED <<points, idx, error, sinceYield>>
    /\ UNCHANGED <<cls, buffer, codecOut, codecLog, header, result,
                   dataPtr, filePtr, laszip, hvars, pvars, uvars, returned, rvars>>

\* await createLazPerf(); new LazPerf.LASZip()
CreateLazPerf ==
    /\ pc = "createLazPerf"
    /\ \/ /\ pc' = "mallocData" /\ laszip' = "live"
          /\ codecLog' = Append(codecLog, "new LASZip")
          /\ UNCHANGED error
       \/ (\E e \in CodecFailures : Throw(e)) /\ UNCHANGED <<laszip, codecLog>>
    /\ sinceYield' = 0
    /\ UNCHANGED <<cls, buffer, codecOut, header, points, statistics, idx, result,
                   dataPtr, filePtr, hvars, pvars, uvars, returned, rvars>>

\* const dataPtr = LazPerf._malloc(header.pointDataRecordLength)
MallocData ==
    /\ pc = "mallocData"
    /\ \/ pc' = "mallocFile" /\ dataPtr' = "allocated" /\ UNCHANGED error
       \/ (\E e \in CodecFailures : Throw(e)) /\ UNCHANGED dataPtr
    /\ codecLog' = Append(codecLog, "_malloc(dataPtr)")
    /\ UNCHANGED <<cls, buffer, codecOut, sinceYield,
                   header, points, statistics, idx, result,
                   filePtr, laszip, hvars, pvars, uvars, returned, rvars>>

\* const filePtr = LazPerf._malloc(this.dataView.buffer.byteLength)
MallocFile ==
    /\ pc = "mallocFile"
    /\ \/ pc' = "heapSet" /\ filePtr' = "allocated" /\ UNCHANGED error
       \/ (\E e \in CodecFailures : Throw(e)) /\ UNCHANGED filePtr
    /\ codecLog' = Append(codecLog, "_malloc(filePtr)")
    /\ UNCHANGED <<cls, buffer, codecOut, sinceYield,
                   header, points, statistics, idx, result,
                   dataPtr, laszip, hvars, pvars, uvars, returned, rvars>>

\* LazPerf.HEAPU8.set(new Uint8Array(this.dataView.buffer), filePtr)
HeapSet ==
    /\ pc = "heapSet"
    /\ \/ pc' = "open" /\ UNCHANGED error
       \/ Throw(RangeError)
    /\ codecLog' = Append(codecLog, "HEAPU8.set")
    /\ UNCHANGED <<cls, buffer, codecOut, sinceYield,
                   header, points, statistics, idx, result,
                   dataPtr, filePtr, laszip, hvars, pvars, uvars, returned, rvars>>

\* laszip.open(filePtr, byteLength), the first statement of the try block.
Open ==
    /\ pc = "open"
    /\ \/ pc' = "getPoint" /\ UNCHANGED error
       \/ pc' = "finally" /\ error' \in CodecFailures
    /\ idx' = 0
    /\ codecLog' = Append(codecLog, "open")
    /\ UNCHANGED <<cls, buffer, codecOut, sinceYield, header, points, statistics, result,
                   dataPtr, filePtr, laszip, hvars, pvars, uvars, returned, rvars>>

\* The bytes getPoint leaves at dataPtr for record i: the next record of the
\* stream, or what the arena held before once the stream is exhausted.
ArenaWindow(i, length) ==
    IF i < Len(codecOut) THEN codecOut[i + 1]
    ELSE IF Len(codecOut) > 0 THEN codecOut[Len(codecOut)]
    ELSE [k \in 1..length |-> 0]

\* One iteration of the loop of the bridge, or its end.
GetPoint ==
    /\ pc = "getPoint"
    /\ LET h == header.header
       IN  IF idx < h.numberOfPointRecords
           THEN \/ LET r == parsePoint(cls, ArenaWindow(idx, h.pointDataRecordLength), 0, h)
                   IN  IF r.ok
                       THEN /\ points' = Append(points, r.point)
                            /\ statistics' = updateStatistics(statistics, r.point)
                            /\ idx' = idx + 1
                            /\ sinceYield' = sinceYield + 1
                            /\ codecLog' = Append(codecLog, "getPoint")
                            /\ UNCHANGED <<pc, error>>
                       ELSE /\ pc' = "finally" /\ error' = r.error
                            /\ codecLog' = Append(codecLog, "getPoint")
                            /\ UNCHANGED <<points, statistics, idx, sinceYield>>
                \/ /\ pc' = "finally" /\ error' \in CodecFailures
                   /\ codecLog' = Append(codecLog, "getPoint")
                   /\ UNCHANGED <<points, statistics, idx, sinceYield>>
           ELSE /\ pc' = "finally"
                /\ UNCHANGED <<points, statistics, idx, error, sinceYield, codecLog>>
    /\ returned' = Shared(returned, sameParser, statistics')
    /\ UNCHANGED <<cls, buffer, codecOut, header, result,
                   dataPtr, filePtr, laszip, hvars, pvars, uvars, rvars>>

\* A finally block whose surrounding handler swallows the failure of the codec:
\* the resources are released and the parse goes on to its return.
Finally_Swallowed ==
    /\ pc = "finally"
    /\ filePtr' = "freed"
    /\ dataPtr' = "freed"
    /\ laszip' = "deleted"
    /\ pc' = "detectUTMZone"
    /\ codecLog' = codecLog \o << "_free(filePtr)", "_free(dataPtr)", "delete" >>
    /\ UNCHANGED <<cls, buffer, codecOut, sinceYield, header, points, statistics, idx,
                   error, result, hvars, pvars, uvars, returned, rvars>>

\* finally { _free(filePtr); _free(dataPtr); laszip.delete() }
Finally ==
    /\ pc = "finally"
    /\ filePtr' = "freed"
    /\ dataPtr' = "freed"
    /\ laszip' = "deleted"
    /\ pc' = IF error = NoError THEN "detectUTMZone" ELSE "failed"
    /\ codecLog' = codecLog \o << "_free(filePtr)", "_free(dataPtr)", "delete" >>
    /\ UNCHANGED <<cls, buffer, codecOut, sinceYield, header, points, statistics, idx,
                   error, result, hvars, pvars, uvars, returned, rvars>>

\* detectUTMZone and the return of parse(); proj4 may throw.
DetectUTMZone ==
    /\ pc = "detectUTMZone"
    /\ \/ /\ result' =
               [ ok |-> TRUE,
                 header |-> header.header,
                 points |-> points,
                 statistics |->
                   [ totalPoints |-> statistics.totalPoints,
                     boundingBox |-> statistics.boundingBox,
                     intensityRange |-> statistics.intensityRange,
                     classificationCounts |-> statistics.classificationCounts,
                     coordinateInfo |->
                       detectUTMZone(buffer,
                                     header.header.maxX + header.header.minX,
                                     header.header.maxY + header.header.minY) ] ]
          /\ pc' = "done"
          /\ UNCHANGED error
       \/ Throw(ProjError) /\ UNCHANGED result
    /\ UNCHANGED <<cls, buffer, codecOut, sinceYield, codecLog,
                   header, points, statistics, idx,
                   dataPtr, filePtr, laszip, hvars, pvars, uvars, returned, rvars>>

Next ==
    \/ initializeDataView
    \/ ParseHeader
    \/ FirstPass
    \/ SecondPass
    \/ CreateLazPerf
    \/ MallocData
    \/ MallocFile
    \/ HeapSet
    \/ Open
    \/ GetPoint
    \/ Finally
    \/ DetectUTMZone

Spec == Init /\ [][Next]_vars

(***************************************************************************)
(* The viewer: handleFileUpload around parse().  The upload button is      *)
(* disabled while loading, so one handler runs at a time.                  *)
(***************************************************************************)
RejectMessage == "Please select a valid LAS/LAZ file (.las or .laz extension)"
FallbackMessage == "Failed to parse LAS/LAZ file"

\* err instanceof Error
InstanceOfError(e) == e.name \in {"Error", "RangeError"}

\* The message shown when the thrown value is taken as it comes.
ErrorMessage_Raw(e) == e.message

\* err instanceof Error ? err.message : 'Failed to parse LAS/LAZ file'
ErrorMessage(e) == IF InstanceOfError(e) THEN e.message ELSE FallbackMessage

\* What the user can pick: no file, a file with a foreign extension, or a
\* .las / .laz file with any of the contents of the pipeline.
Selections ==
    { [ext |-> "none", buffer |-> << >>, records |-> << >>],
      [ext |-> "txt", buffer |-> << >>, records |-> << >>] }
    \cup { [ext |-> x, buffer |-> file.buffer, records |-> file.records] :
              x \in {"las", "laz"}, file \in PointFiles }
    \cup { [ext |-> x, buffer |-> b, records |-> << >>] :
              x \in {"las", "laz"}, b \in BadFiles }

InitViewer ==
    /\ IdleViewer /\ IdleParse /\ IdleHeader /\ IdlePoint /\ IdleReturn

\* handleFileUpload up to the construction of the parser.
handleFileUpload ==
    /\ pc = "idle" /\ ~loading
    /\ \E sel \in Selections :
          IF sel.ext = "none"
          THEN UNCHANGED <<mvars, uvars>>
          ELSE IF sel.ext \notin {"las", "laz"}
          THEN /\ uiError' = Some(RejectMessage)
               /\ UNCHANGED <<lasData, loading, mvars>>
          ELSE /\ loading' = TRUE
               /\ uiError' = null
               /\ lasData' = null
               /\ cls' = IF sel.ext = "laz" THEN "LazFileParser" ELSE "LasFileParser"
               /\ buffer' = sel.buffer
               /\ codecOut' = sel.records
               /\ statistics' = NewStatistics
               /\ pc' = "initializeDataView"
               /\ UNCHANGED <<header, points, idx, error, result, sinceYield, codecLog,
                              dataPtr, filePtr, laszip>>
    /\ UNCHANGED <<hvars, pvars, returned, rvars>>

\* handleFileUpload once parse() has settled: setLasData(data) or the catch,
\* then the finally; the parser and its locals are dropped.
handleFileUploadSettled ==
    /\ pc \in {"done", "failed"} /\ loading
    /\ IF pc = "done"
       THEN lasData' = Some(result) /\ UNCHANGED uiError
       ELSE uiError' = Some(ErrorMessage(error)) /\ UNCHANGED lasData
    /\ loading' = FALSE
    /\ cls' = "none" /\ buffer' = << >> /\ codecOut' = << >> /\ pc' = "idle"
    /\ header' = None /\ points' = << >> /\ statistics' = None /\ idx' = 0
    /\ error' = NoError /\ result' = None
    /\ dataPtr' = "none" /\ filePtr' = "none" /\ laszip' = "none"
    /\ sinceYield' = 0 /\ codecLog' = << >>
    /\ UNCHANGED <<hvars, pvars, returned, rvars>>

NextViewer ==
    \/ handleFileUpload
    \/ handleFileUploadSettled
    \/ initializeDataView
    \/ ParseHeader
    \/ FirstPass
    \/ SecondPass
    \/ CreateLazPerf
    \/ MallocData
    \/ MallocFile
    \/ HeapSet
    \/ Open
    \/ GetPoint
    \/ Finally
    \/ DetectUTMZone

SpecViewer == InitViewer /\ [][NextViewer]_vars

(***************************************************************************)
(* Two parses of the same bytes, each on a parser of its own: when the     *)
(* first has returned, a second parser is constructed over the same file.  *)
(***************************************************************************)
\* A second parser that takes over the points array of the first.
NewParser_SharedPoints ==
    /\ pc = "done" /\ returned = None
    /\ returned' = result /\ sameParser' = FALSE /\ snapshot' = result
    /\ statistics' = NewStatistics
    /\ header' = None /\ idx' = 0
    /\ error' = NoError /\ result' = None
    /\ dataPtr' = "none" /\ filePtr' = "none" /\ laszip' = "none"
    /\ sinceYield' = 0 /\ codecLog' = << >>
    /\ pc' = "initializeDataView"
    /\ UNCHANGED <<cls, buffer, codecOut, points, hvars, pvars, uvars>>

\* new LasFileParser(file) / new LazFileParser(file) on the same file, then
\* parse(): the fields of the new instance and the locals of its parse are new.
NewParser ==
    /\ pc = "done" /\ returned = None
    /\ returned' = result /\ sameParser' = FALSE /\ snapshot' = result
    /\ statistics' = NewStatistics
    /\ header' = None /\ points' = << >> /\ idx' = 0
    /\ error' = NoError /\ result' = None
    /\ dataPtr' = "none" /\ filePtr' = "none" /\ laszip' = "none"
    /\ sinceYield' = 0 /\ codecLog' = << >>
    /\ pc' = "initializeDataView"
    /\ UNCHANGED <<cls, buffer, codecOut, hvars, pvars, uvars>>

NextTwice ==
    \/ NewParser
    \/ Next

SpecTwice == Init /\ [][NextTwice]_vars

(***************************************************************************)
(* Two parse() calls on one parser instance: when the first has returned,  *)
(* parse() is called again; the statistics field of the instance stays.    *)
(***************************************************************************)
\* A second parse() call on the instance whose first call has returned: the
\* locals of parse and parsePoints are new, this.statistics is the object the
\* constructor made.
ParseAgain ==
    /\ pc = "done" /\ returned = None
    /\ returned' = result /\ sameParser' = TRUE /\ snapshot' = result
    /\ header' = None /\ points' = << >> /\ idx' = 0
    /\ error' = NoError /\ result' = None
    /\ dataPtr' = "none" /\ filePtr' = "none" /\ laszip' = "none"
    /\ sinceYield' = 0 /\ codecLog' = << >>
    /\ pc' = "initializeDataView"
    /\ UNCHANGED <<cls, buffer, codecOut, statistics, hvars, pvars, uvars>>

NextAgain ==
    \/ ParseAgain
    \/ Next

SpecAgain == Init /\ [][NextAgain]_vars

(***************************************************************************)
(* Claims.                                                                 *)
(***************************************************************************)
Terminated == pc \in {"done", "failed"}
BadSignature(view) == Len(view) < 4 \/ SubSeq(view, 1, 4) # LASF

\* C1: a buffer whose first four bytes are not "LASF" never gets a header:
\* the parse fails with an error at or before header decoding, no point is
\* decoded and no dataset is returned.
C1_BadSignatureRejected ==
    BadSignature(buffer) =>
        /\ header = None
        /\ points = << >>
        /\ result = None
        /\ pc \in {"initializeDataView", "parseHeader", "failed"}
        /\ pc = "failed" => error # NoError

C1_Witness ==
    /\ pc = "failed"
    /\ Len(buffer) >= 227
    /\ SubSeq(buffer, 1, 3) = SubSeq(LASF, 1, 3)
    /\ SubSeq(buffer, 1, 4) # LASF
    /\ error = InvalidSignature

\* C2: header decoding of a buffer shorter than 227 bytes fails with the same
\* error as a bad signature, whatever the bytes are.
C2_ShortBufferMalformedHeader ==
    (hdone /\ Len(hbuf) < 227) => (~hres.ok /\ hres.error = InvalidSignature)

\* C3: header decoding of a buffer of at least 227 bytes with signature LASF
\* returns a header for every version.
C3_HeaderForEveryVersion ==
    (hdone /\ Len(hbuf) >= 227 /\ SubSeq(hbuf, 1, 4) = LASF) => hres.ok

\* C4: the decoded point record count is the extended 64-bit field when the
\* version is 1.4 or higher and the legacy 32-bit field when it is below.
C4_PointCountSource ==
    (hdone /\ hres.ok /\ Len(hbuf) >= 255) =>
        LET major == hbuf[25]
            minor == hbuf[26]
            atLeast14 == major > 1 \/ (major = 1 /\ minor >= 4)
        IN  hres.header.numberOfPointRecords =
                IF atLeast14 THEN getBigUint64(hbuf, 247)
                             ELSE Number(getUint32(hbuf, 107))

\* C5: in every decoder each coordinate is the signed 32-bit little-endian
\* integer at window offset 0/4/8 times the axis scale plus the axis offset.
C5_SignedCoordinates ==
    pdone =>
        \A c \in DOMAIN pout :
            pout[c].ok =>
                /\ pout[c].point.x =
                       ScaleOffset(getInt32(pin.window, 0), pin.header.xScaleFactor,
                                   pin.header.xOffset)
                /\ pout[c].point.y =
                       ScaleOffset(getInt32(pin.window, 4), pin.header.yScaleFactor,
                                   pin.header.yOffset)
                /\ pout[c].point.z =
                       ScaleOffset(getInt32(pin.window, 8), pin.header.zScaleFactor,
                                   pin.header.zOffset)

\* The file of the scenario: header of 227 bytes, version 1.2, format 0, record
\* length 20, two records (100,200,300) and (400,500,600), scale 0.01, offset 0.
ScenarioFile ==
    FileBytes([BaseFile EXCEPT !.legacyCount = 2, !.byteLength = 267],
              << PointBytes(RecordPool[1], 20), PointBytes(RecordPool[2], 20) >>)

\* C6: the parse of the scenario file completes without error and returns
\* the points (1.0,2.0,3.0) and (4.0,5.0,6.0) and the bounding box
\* minX=1.0 maxX=4.0 minY=2.0 maxY=5.0 minZ=3.0 maxZ=6.0.
C6_Scenario ==
    (cls = "LasFileParser" /\ buffer = ScenarioFile /\ Terminated
        /\ error # ProjError) =>
        /\ pc = "done"
        /\ Len(result.points) = 2
        /\ << result.points[1].x, result.points[1].y, result.points[1].z >>
              = << <<0, 100>>, <<0, 200>>, <<0, 300>> >>
        /\ << result.points[2].x, result.points[2].y, result.points[2].z >>
              = << <<0, 400>>, <<0, 500>>, <<0, 600>> >>
        /\ result.statistics.boundingBox =
              [ minX |-> <<0, 100>>, maxX |-> <<0, 400>>, minY |-> <<0, 200>>,
                maxY |-> <<0, 500>>, minZ |-> <<0, 300>>, maxZ |-> <<0, 600>> ]

\* C7: a decoded point has a GPS time exactly when the format is 1 or 3 and
\* red, green and blue exactly when the format is 2 or 3, in every decoder.
C7_OptionalFields ==
    pdone =>
        \A c \in DOMAIN pout :
            pout[c].ok =>
                LET f == pin.header.pointDataRecordFormat
                    p == pout[c].point
                IN  /\ (p.gpsTime # undefined) <=> (f \in {1, 3})
                    /\ (p.red # undefined) <=> (f \in {2, 3})
                    /\ (p.green # undefined) <=> (f \in {2, 3})
                    /\ (p.blue # undefined) <=> (f \in {2, 3})

\* C8: a file whose header carries a point format outside 0..3 yields no
\* decoded point and no dataset: the parse fails.
C8_UnsupportedFormatRejected ==
    (header.ok /\ header.header.pointDataRecordFormat \notin 0..3) =>
        /\ points = << >>
        /\ result = None
        /\ pc # "done"

\* C9: once the bridge has terminated after its first arena allocation, both
\* arena allocations are freed and the LASZip stream is deleted.
C9_ResourcesReleased ==
    (Terminated /\ dataPtr # "none") =>
        /\ dataPtr = "freed"
        /\ filePtr \in {"freed"}
        /\ laszip = "deleted"

\* C10: on the same window and header the bridge's decoder returns the same
\* point as the plain decoder, for LasFileParser/LazFileParser and for
\* LasParser/LazParser.
C10_BridgeDecoderEqualsPlain ==
    pdone =>
        /\ pout["LazFileParser"] = pout["LasFileParser"]
        /\ pout["LazParser"] = pout["LasParser"]

\* C11: when the codec fails in the compressed path (createLazPerf rejects,
\* an allocation or open throws, or getPoint throws after k points), the
\* parse ends failed with that error: no dataset is returned, the k points
\* decoded so far do not reach the caller, and no parse that returns a
\* dataset has recorded a failure.
C11_CodecFailurePropagates ==
    /\ error \in CodecFailures => pc \in {"finally", "failed"} /\ result = None
    /\ pc = "done" => error = NoError /\ result.ok
C11_Witness ==
    /\ pc = "failed" /\ error \in CodecFailures /\ cls = "LazFileParser"
    /\ Len(points) >= 1 /\ Len(points) < header.header.numberOfPointRecords
    /\ result = None /\ laszip = "deleted"

\* C12: for the points a parse returns, the plain path and the compressed
\* path leave the same statistics: the histogram, the intensity range and
\* the bounding box of the returned dataset are, field by field, those of
\* feeding every returned point once, in decode order, to the aggregator.
C12_PathsAggregateAlike ==
    pc = "done" =>
        LET a == Aggregate(NewStatistics, result.points)
        IN  /\ result.statistics.classificationCounts = a.classificationCounts
            /\ result.statistics.intensityRange = a.intensityRange
            /\ result.statistics.boundingBox = a.boundingBox

\* C13: in every dataset a parse returns, on the plain or the compressed
\* path, each returned point lies inside the bounding box of the statistics
\* on each axis: min <= coordinate <= max.
C13_BoundingBoxContainsPoints ==
    pc = "done" =>
        LET b == result.statistics.boundingBox
        IN  \A i \in 1..Len(result.points) :
                LET p == result.points[i]
                IN  /\ ~WLess(p.x, b.minX) /\ ~WLess(b.maxX, p.x)
                    /\ ~WLess(p.y, b.minY) /\ ~WLess(b.maxY, p.y)
                    /\ ~WLess(p.z, b.minZ) /\ ~WLess(b.maxZ, p.z)

\* The sum of the values of a histogram.
RECURSIVE SumCounts(_)
SumCounts(counts) ==
    IF DOMAIN counts = {} THEN 0
    ELSE LET c == CHOOSE d \in DOMAIN counts : TRUE
         IN  counts[c] + SumCounts([d \in DOMAIN counts \ {c} |-> counts[d]])

\* The number of points of a sequence that carry classification c.
PointsOfClass(pts, c) ==
    Cardinality({i \in 1..Len(pts) : pts[i].classification = c})

C15_ReprojectionFailureNotFatal ==
    error = ProjError =>
        /\ pc = "done"
        /\ result.ok
        /\ result.header = header.header
        /\ result.points = points
        /\ result.statistics.coordinateInfo = undefined

\* C16: when the parse started by handleFileUpload fails, then once the
\* handler has finished the viewer holds no dataset, a non-empty error
\* message, and loading is false; and a dataset is only ever stored by the
\* step that follows a successful return of parse(), as that return value.
C16_FailedUploadLeavesNoDataset ==
    [][ /\ (pc = "failed" /\ pc' = "idle") =>
              /\ lasData' = null
              /\ uiError' # null /\ uiError' # Some("")
              /\ loading' = FALSE
        /\ (lasData' # null /\ lasData' # lasData) =>
              pc = "done" /\ result.ok /\ lasData' = Some(result)
        /\ loading => lasData = null ]_vars
C16_Witness ==
    /\ pc = "idle" /\ ~loading /\ lasData = null
    /\ uiError = Some(FallbackMessage)

\* The number of complete records of the header's record length that fit
\* between offsetToPointData and the end of the buffer.
FittingRecords(h) ==
    IF Len(buffer) < h.offsetToPointData THEN 0
    ELSE (Len(buffer) - h.offsetToPointData) \div h.pointDataRecordLength

\* C17: when the header declares N records and only k < N complete records
\* fit in the buffer (the buffer may end exactly at the end of record k),
\* the plain-path point loop does not throw, and the parse returns exactly
\* the first k records, in file order.
C17_TruncatedBufferReturnsFittingRecords ==
    (/\ cls = "LasFileParser" /\ header.ok
     /\ header.header.pointDataRecordLength > 0
     /\ FittingRecords(header.header) < header.header.numberOfPointRecords) =>
        LET h == header.header
            k == FittingRecords(h)
        IN  /\ error \in {NoError, ProjError}
            /\ pc = "done" =>
                  /\ Len(result.points) = k
                  /\ \A i \in 1..k :
                        LET r == LasFileParser_parsePoint(buffer,
                                     h.offsetToPointData
                                         + (i - 1) * h.pointDataRecordLength, h)
                        IN  r.ok /\ result.points[i] = r.point

PointDecoders == {"LasFileParser", "LazFileParser", "LasParser", "LazParser"}

\* C19: in every point a decoder of the repository returns, classification
\* is the unsigned byte at window offset 15, scanAngleRank the signed byte
\* at offset 16, userData the byte at offset 17 and pointSourceId the
\* unsigned 16-bit value at offsets 18..19.
C19_OneRecordLayout ==
    pdone =>
        \A c \in PointDecoders :
            pout[c].ok =>
                /\ pout[c].point.classification = getUint8(pin.window, 15)
                /\ pout[c].point.scanAngleRank = getInt8(pin.window, 16)
                /\ pout[c].point.userData = getUint8(pin.window, 17)
                /\ pout[c].point.pointSourceId = getUint16(pin.window, 18)

\* C20: in every point a decoder of the repository returns, with b the byte
\* at window offset 14, returnNumber = b mod 8, numberOfReturns =
\* (b div 8) mod 8, scanDirectionFlag = bit 6 of b and edgeOfFlightLine =
\* bit 7 of b.
C20_FlagByteUnpacked ==
    pdone =>
        LET b == getUint8(pin.window, 14)
        IN  \A c \in PointDecoders :
                pout[c].ok =>
                    /\ pout[c].point.returnNumber = b % 8
                    /\ pout[c].point.numberOfReturns = (b \div 8) % 8
                    /\ pout[c].point.scanDirectionFlag = (b \div 64) % 2
                    /\ pout[c].point.edgeOfFlightLine = (b \div 128) % 2

\* C21: in the statistics every successful parse returns (plain or
\* compressed path, complete or truncated buffer), the counts of the
\* classification histogram add up to statistics.totalPoints.
C21_HistogramSumsToTotal ==
    pc = "done" =>
        SumCounts(result.statistics.classificationCounts)
            = result.statistics.totalPoints

\* C22: when the plain path stops early on a truncated buffer, after k < N
\* records, the returned statistics.totalPoints is the declared count N of
\* the header and the returned point sequence has length k.
C22_TruncatedTotalIsDeclaredCount ==
    (/\ pc = "done" /\ ~Compressed(cls)
     /\ FittingRecords(result.header) < result.header.numberOfPointRecords) =>
        /\ result.statistics.totalPoints = result.header.numberOfPointRecords
        /\ Len(result.points) = FittingRecords(result.header)
C22_Witness ==
    /\ pc = "done" /\ cls = "LasFileParser"
    /\ result.header.numberOfPointRecords = 2
    /\ FittingRecords(result.header) = 1
    /\ Len(result.points) = 1
    /\ result.statistics.totalPoints = 2

\* The smaller of two numbers.
Min(a, b) == IF a < b THEN a ELSE b

\* C23: in the plain path the i-th returned point (from 0) is decoded from
\* the bytes at offsetToPointData + i * pointDataRecordLength, the points
\* are appended in increasing i with none skipped or repeated, and a parse
\* that returns holds as many points as the smaller of the declared count
\* and the number of whole records that fit after offsetToPointData.
C23_PlainPathOffsetsAndCount ==
    (~Compressed(cls) /\ header.ok /\ pc \in {"secondPass", "detectUTMZone", "done"}) =>
        LET h == header.header
        IN  /\ pc = "secondPass" => Len(points) = idx
            /\ \A i \in 0..(Len(points) - 1) :
                   LET r == parsePoint(cls, buffer,
                                h.offsetToPointData + i * h.pointDataRecordLength, h)
                   IN  r.ok /\ points[i + 1] = r.point
            /\ pc = "done" =>
                   /\ result.points = points
                   /\ Len(result.points)
                        = Min(h.numberOfPointRecords, FittingRecords(h))
C23_Witness ==
    /\ pc = "done" /\ cls = "LasFileParser"
    /\ Len(result.points) = 2
    /\ result.points[1] # result.points[2]
    /\ FittingRecords(result.header) = 2

\* The batch size of the model: the largest one that a file of the model
\* still exceeds (the source names 1,000,000 points a batch, for its log).
YieldBatch == MaxPoints - 1

\* C24: during point decoding the parse yields to the scheduler at a fixed
\* granularity: it never decodes more than one batch of consecutive points
\* without a yield, on the plain path and on the compressed path.
C24_YieldsEveryBatch == sinceYield <= YieldBatch

\* The <<offset, size>> of every read a decoder makes in its window.
DecoderReads(class, format) ==
    IF class = "LasParser" THEN LasParser_PointReads(format)
    ELSE IF class = "LazParser"
    THEN PointReads(format) \cup { <<15, 1>>, <<16, 1>>, <<17, 1>>, <<18, 2>> }
    ELSE PointReads(format) \cup { <<16, 1>>, <<17, 1>>, <<18, 1>>, <<19, 2>> }

\* C25: when the window handed to a point decoder has exactly the declared
\* record length and that length is the standard size of the format (20,
\* 28, 26, 34 bytes for formats 0, 1, 2, 3), decoding one point reads only
\* the bytes at window offsets 0 .. length-1, so no read leaves the window.
C25_ReadsStayInWindow ==
    (/\ pdone
     /\ pin.header.pointDataRecordFormat \in 0..3
     /\ Len(pin.window) = StandardLength(pin.header.pointDataRecordFormat)) =>
        \A c \in PointDecoders :
            /\ \A r \in DecoderReads(c, pin.header.pointDataRecordFormat) :
                   r[1] >= 0 /\ r[1] + r[2] <= Len(pin.window)
            /\ pout[c].ok

\* v is the least (greatest) wide value of the non-empty set S.
IsWMin(v, S) == v \in S /\ \A w \in S : ~WLess(w, v)
IsWMax(v, S) == v \in S /\ \A w \in S : ~WLess(v, w)

\* C26: after a successful parse that decoded at least one point, every
\* bound of the returned statistics is exact: the bounding box holds the
\* minimum and the maximum of each axis over the decoded points and the
\* intensity range the minimum and the maximum intensity, so that a seed
\* value only shows where a decoded point has that value.
C26_BoundsExact ==
    (pc = "done" /\ Len(result.points) >= 1) =>
        LET pts == result.points
            I == 1..Len(pts)
            b == result.statistics.boundingBox
            r == result.statistics.intensityRange
        IN  /\ IsWMin(b.minX, {pts[i].x : i \in I})
            /\ IsWMax(b.maxX, {pts[i].x : i \in I})
            /\ IsWMin(b.minY, {pts[i].y : i \in I})
            /\ IsWMax(b.maxY, {pts[i].y : i \in I})
            /\ IsWMin(b.minZ, {pts[i].z : i \in I})
            /\ IsWMax(b.maxZ, {pts[i].z : i \in I})
            /\ r.min \in {pts[i].intensity : i \in I}
            /\ r.max \in {pts[i].intensity : i \in I}
            /\ \A i \in I : r.min <= pts[i].intensity /\ pts[i].intensity <= r.max

\* C27: a second parse() call on the same parser instance over the same
\* file returns statistics equal to those the first call returned: the same
\* classification histogram, intensity range and bounding box.
C27_SecondParseSameStatistics ==
    (sameParser /\ pc = "done") =>
        /\ result.statistics.classificationCounts
             = snapshot.statistics.classificationCounts
        /\ result.statistics.intensityRange = snapshot.statistics.intensityRange
        /\ result.statistics.boundingBox = snapshot.statistics.boundingBox

\* C28: a dataset parse() has returned is never changed afterwards: whatever
\* the parser that produced it does later, a further parse() call on the
\* same instance included, its header, its points and every field of its
\* statistics keep the values they had when it was returned.
C28_ReturnedDatasetUnchanged ==
    sameParser => returned = snapshot

\* C29: in the viewer, after any sequence of file selections (files parsed
\* with success or failure, files rejected for their extension), an error
\* message and a dataset are never held together, and loading is true
\* exactly while a parse started by the handler has not been settled.
C29_ViewerState ==
    /\ ~(uiError # null /\ lasData # null)
    /\ loading <=> pc # "idle"

\* The positions of the calls named c in the log of codec calls.
Calls(c) == {i \in 1..Len(codecLog) : codecLog[i] = c}
Releases == Calls("_free(filePtr)") \cup Calls("_free(dataPtr)") \cup Calls("delete")

\* C30: in one run of the bridge the codec calls follow one protocol: the
\* file bytes are copied into the arena before open; open is called once,
\* before the first getPoint; a run that succeeds has called getPoint
\* numberOfPointRecords times, once per decoded point; no open or getPoint
\* follows a free or the delete; and when the run is over each of the two
\* arena pointers has been freed exactly once and the stream deleted
\* exactly once.
C30_CodecProtocol ==
    /\ \A i \in Calls("open") : \E j \in Calls("HEAPU8.set") : j < i
    /\ Cardinality(Calls("open")) <= 1
    /\ \A i \in Calls("getPoint") : \E j \in Calls("open") : j < i
    /\ (pc = "done" /\ Compressed(cls)) =>
          /\ Cardinality(Calls("open")) = 1
          /\ Cardinality(Calls("getPoint")) = header.header.numberOfPointRecords
          /\ Cardinality(Calls("getPoint")) = Len(points)
    /\ \A i \in Calls("open") \cup Calls("getPoint") : \A j \in Releases : i < j
    /\ Cardinality(Calls("_free(filePtr)")) <= 1
    /\ Cardinality(Calls("_free(dataPtr)")) <= 1
    /\ Cardinality(Calls("delete")) <= 1
    /\ Terminated =>
          /\ dataPtr # "none" => Cardinality(Calls("_free(dataPtr)")) = 1
          /\ filePtr # "none" => Cardinality(Calls("_free(filePtr)")) = 1
          /\ laszip # "none" => Cardinality(Calls("delete")) = 1

====
